---- MODULE Spec2Model ----
(***************************************************************************)
(* FlexiMart ETL pipeline (part1-database-etl/etl_pipeline.py).            *)
(*                                                                         *)
(* The model covers main(): reading the three raw CSV files, the three     *)
(* cleaners, the two splits of the cleaned sales, the four table loads     *)
(* into the MySQL store and the quality report.  A raw or cleaned table is *)
(* its rows, a text cell the tuple of its characters.  The store is the    *)
(* committed contents of the four tables; one action is one call that main *)
(* makes, e.g. one whole run of load_data_to_table.  What the store and    *)
(* the driver can do to a call (connection refused, cursor creation        *)
(* failing, a statement or the commit raising) is an input of the action,  *)
(* drawn from faults(...).                                                 *)
(*                                                                         *)
(* Spec       step 4 and 5 of main over cleaned tables of every shape;     *)
(* SpecEtl    the whole script, run up to MaxRuns times on the same files; *)
(* SpecClean  steps 1 to 3 of main, every cell of the raw rows varied;     *)
(* SpecFaulty one run of the whole script with the faults of the store;    *)
(* SpecPhone  clean_customers on files whose phone cells are varied;       *)
(* SpecMongo  update_review of part2-nosql/mongodb_operations.py and the   *)
(*            test main applies to its result.                             *)
(***************************************************************************)

EXTENDS Integers, Sequences, FiniteSets, TLC

\* ------------------------------------------------------------------ bounds
MaxId == 1
MaxSales == 1

\* Surrogate ids of customers, products and transactions.
Ids == 1..MaxId

\* A table handed to a load step: a DataFrame with its rows, or Python None
\* (what a cleaner that raised returns).
None == [is_none |-> TRUE, rows |-> {}]

DataFrame(rows) == [is_none |-> FALSE, rows |-> rows]

\* ------------------------------------------------------------- data tables
\* A cleaned sales row; index is the DataFrame index label of the row.
SaleRows ==
  [index : 0..(MaxSales - 1), transaction_id : Ids, customer_id : Ids,
   product_id : Ids, quantity : {2}, unit_price : {50},
   transaction_date : {"2024-01-15"}, status : {"Completed"}]

\* Cleaned sales tables: transaction ids are distinct (clean_sales drops
\* duplicate transaction ids), rows are in index order.
SalesTables ==
  {s \in UNION {[1..n -> SaleRows] : n \in 0..MaxSales} :
     /\ \A i \in 1..Len(s) : s[i].index = i - 1
     /\ \A i, j \in 1..Len(s) :
          s[i].transaction_id = s[j].transaction_id => i = j}

\* One row of split_sales_to_orders: order_id = transaction_id,
\* total_amount = quantity * unit_price, transaction_date -> order_date.
\* An order whose total leaves the quantity out.
OrderOf_unit_price(r) ==
  [order_id |-> r.transaction_id, customer_id |-> r.customer_id,
   order_date |-> r.transaction_date,
   total_amount |-> r.unit_price, status |-> r.status]

OrderOf(r) ==
  [order_id |-> r.transaction_id, customer_id |-> r.customer_id,
   order_date |-> r.transaction_date,
   total_amount |-> r.quantity * r.unit_price, status |-> r.status]

\* The projected rows with drop_duplicates applied (a set has no duplicates).
split_sales_to_orders(sales_clean) ==
  {OrderOf(sales_clean[i]) : i \in 1..Len(sales_clean)}

\* One row of split_sales_to_order_items: order_item_id = index + 1.
OrderItemOf(r) ==
  [order_item_id |-> r.index + 1, order_id |-> r.transaction_id,
   product_id |-> r.product_id, quantity |-> r.quantity,
   unit_price |-> r.unit_price, subtotal |-> r.quantity * r.unit_price]

split_sales_to_order_items(sales_clean) ==
  {OrderItemOf(sales_clean[i]) : i \in 1..Len(sales_clean)}

\* ------------------------------------------------------------------- store
Tables == {"customers", "products", "orders", "order_items"}

EmptyStore ==
  [customers |-> {}, products |-> {}, orders |-> {}, order_items |-> {}]

\* What an earlier, fully successful run left behind.
SeededSale ==
  [index |-> 0, transaction_id |-> 1, customer_id |-> 1, product_id |-> 1,
   quantity |-> 2, unit_price |-> 50, transaction_date |-> "2024-01-15",
   status |-> "Completed"]

SeededStore ==
  [customers |-> Ids, products |-> Ids,
   orders |-> {OrderOf(SeededSale)},
   order_items |-> {OrderItemOf(SeededSale)}]

PriorStores == {EmptyStore, SeededStore}


\* ---------------------------------------------------------------- events
\* One observable step of a call: a statement sent to the store, a resource
\* opened or closed, a log record.  by is the table load that made it.
Ev(op, arg, by) == [op |-> op, arg |-> arg, by |-> by]

Log(level, by) == Ev("log", level, by)

\* ------------------------------------------------------- store semantics
\* FOREIGN KEY (customer_id) REFERENCES customers, (order_id) REFERENCES
\* orders, (product_id) REFERENCES products: a parent row that a child row
\* references cannot be deleted.
fk_delete_ok(db, tbl) ==
  CASE tbl = "customers" ->
         \A o \in db.orders : o.customer_id \notin db.customers
    [] tbl = "orders" ->
         \A it \in db.order_items :
            it.order_id \notin {o.order_id : o \in db.orders}
    [] tbl = "products" ->
         \A it \in db.order_items : it.product_id \notin db.products
    [] OTHER -> TRUE

fk_insert_unchecked(db, tbl, rows) == TRUE

\* The same FOREIGN KEY clauses on insert: the parent row must exist.
fk_insert_ok(db, tbl, rows) ==
  CASE tbl = "orders" ->
         \A r \in rows : r.customer_id \in db.customers
    [] tbl = "order_items" ->
         \A r \in rows :
            /\ r.order_id \in {o.order_id : o \in db.orders}
            /\ r.product_id \in db.products
    [] OTHER -> TRUE

\* PRIMARY KEY of each table (customers and products rows are their key).
KeyOf(tbl, row) ==
  CASE tbl = "orders" -> row.order_id
    [] tbl = "order_items" -> row.order_item_id
    [] OTHER -> row

pk_insert_ok(db, tbl, rows) ==
  \A r \in rows : KeyOf(tbl, r) \notin {KeyOf(tbl, x) : x \in db[tbl]}

\* ------------------------------------------------------------------ faults
\* What the environment does to one call of load_data_to_table:
\*   connect  mysql.connector.connect succeeds ("ok") or raises ("fail")
\*   schema   create_all_tables: "ok", conn.cursor() raises ("cursor"),
\*            a CREATE TABLE or its commit raises ("exec")
\*   stmt     load_data_to_table: "ok", conn.cursor() raises ("cursor"),
\*            the k-th DELETE raises ("delete"), executemany raises
\*            ("insert"), conn.commit() raises ("commit")
NoFault == [connect |-> "ok", schema |-> "ok", stmt |-> "ok", k |-> 0]

IsNone(df) == df.is_none

\* if df is None or df.empty
IsNoneOrEmpty(df) == df.is_none \/ df.rows = {}

faults(table_name, df, delete_queries, env) ==
  IF IsNoneOrEmpty(df) \/ ~env THEN {NoFault}
  ELSE {[NoFault EXCEPT !.connect = "fail"]}
       \cup (IF table_name = "customers"
             THEN {[NoFault EXCEPT !.schema = "cursor"]} ELSE {})
       \cup {[NoFault EXCEPT !.schema = s, !.stmt = t, !.k = i] :
               <<s, t, i>> \in
                 {x \in (IF table_name = "customers"
                         THEN {"ok", "exec"} ELSE {"ok"})
                        \X {"ok", "cursor", "delete", "insert", "commit"}
                        \X (0..Len(delete_queries)) :
                    (x[2] = "delete") = (x[3] > 0)}}

\* --------------------------------------------------------- the load call
\* get_db_connection: credentials are read from the environment; without
\* them no connection is attempted.  Every failure is logged and gives None.
get_db_connection(by, env, f) ==
  IF ~env
  THEN [conn |-> FALSE, events |-> <<Log("info", by), Log("error", by)>>]
  ELSE IF f.connect = "fail"
  THEN [conn |-> FALSE,
        events |-> <<Log("info", by), Ev("connect", "", by),
                     Log("error", by)>>]
  ELSE [conn |-> TRUE,
        events |-> <<Log("info", by), Ev("connect", "", by),
                     Ev("conn_open", "", by), Log("info", by)>>]

\* create_all_tables: try { cursor; four CREATE TABLE IF NOT EXISTS; commit }
\* except { log } finally { cursor.close() }.  When conn.cursor() raises,
\* the name cursor is unbound in the finally block, which raises in turn.
create_all_tables(by, f) ==
  CASE f.schema = "cursor" ->
         [raised |-> TRUE, events |-> <<Log("error", by)>>]
    [] f.schema = "exec" ->
         [raised |-> FALSE,
          events |-> <<Ev("cursor_open", "", by), Log("error", by),
                       Ev("cursor_close", "", by)>>]
    [] OTHER ->
         [raised |-> FALSE,
          events |-> <<Ev("cursor_open", "", by), Ev("schema", "", by),
                       Log("info", by), Ev("cursor_close", "", by)>>]

\* for dq in delete_queries: cursor.execute(dq), inside the transaction db.
\* Stops at the first statement that raises.
\* A load that leaves the old rows in place.
run_deletes_none(db, delete_queries, i, by, f) ==
  [ok |-> TRUE, db |-> db, events |-> <<>>]

\* A load that empties its own table only, the last of its delete list.
run_deletes_own_table(db, delete_queries, i, by, f) ==
  [ok |-> TRUE,
   db |-> [db EXCEPT ![delete_queries[Len(delete_queries)]] = {}],
   events |-> <<Ev("delete", delete_queries[Len(delete_queries)], by)>>]

RECURSIVE run_deletes(_, _, _, _, _)
run_deletes(db, delete_queries, i, by, f) ==
  IF i > Len(delete_queries)
  THEN [ok |-> TRUE, db |-> db, events |-> <<>>]
  ELSE LET tbl == delete_queries[i]
           ev == <<Ev("delete", tbl, by)>>
       IN IF (f.stmt = "delete" /\ f.k = i) \/ ~fk_delete_ok(db, tbl)
          THEN [ok |-> FALSE, db |-> db, events |-> ev]
          ELSE LET rest == run_deletes([db EXCEPT ![tbl] = {}],
                                       delete_queries, i + 1, by, f)
               IN [ok |-> rest.ok, db |-> rest.db,
                   events |-> ev \o rest.events]

close_connection_autocommit(db, txn, committed) == txn

\* conn.close() in the finally block: what conn.commit() has not committed
\* is discarded by the store, which keeps its committed contents db.
close_connection(db, txn, committed) ==
  IF committed THEN txn ELSE db

\* load_data_to_table.  Gives the committed store after the call, the
\* events of the call, the connections and cursors it leaves open, and how
\* it ended: "skipped", "no_conn", "failed", "committed", or "raised" when
\* an exception leaves the function.
load_data_to_table(df, table_name, delete_queries, db, env, f) ==
  IF IsNoneOrEmpty(df)
  THEN [store |-> db, events |-> <<Log("error", table_name)>>,
        conns |-> 0, cursors |-> 0, status |-> "skipped"]
  ELSE
  LET c == get_db_connection(table_name, env, f) IN
  IF ~c.conn
  THEN [store |-> db, events |-> c.events \o <<Log("error", table_name)>>,
        conns |-> 0, cursors |-> 0, status |-> "no_conn"]
  ELSE
  LET s == IF table_name = "customers"
           THEN create_all_tables(table_name, f)
           ELSE [raised |-> FALSE, events |-> <<>>]
  IN
  IF s.raised
  THEN [store |-> db, events |-> c.events \o s.events,
        conns |-> 1, cursors |-> 0, status |-> "raised"]
  ELSE IF f.stmt = "cursor"
  THEN \* except logs; finally: cursor.close() on the unbound name raises,
       \* conn.close() is not reached.
       [store |-> db,
        events |-> c.events \o s.events \o <<Log("error", table_name)>>,
        conns |-> 1, cursors |-> 0, status |-> "raised"]
  ELSE
  LET d == run_deletes(db, delete_queries, 1, table_name, f)
      inserted == /\ d.ok
                  /\ f.stmt # "insert"
                  /\ pk_insert_ok(d.db, table_name, df.rows)
                  /\ fk_insert_ok(d.db, table_name, df.rows)
      txn == IF inserted
             THEN [d.db EXCEPT ![table_name] = @ \cup df.rows] ELSE d.db
      committed == inserted /\ f.stmt # "commit"
  IN [store |-> close_connection(db, txn, committed),
      events |->
        c.events \o s.events
        \o <<Ev("cursor_open", "", table_name), Log("info", table_name)>>
        \o d.events
        \o (IF d.ok
            THEN <<Log("info", table_name),
                   Ev("insert", table_name, table_name)>>
            ELSE <<>>)
        \o (IF inserted THEN <<Ev("commit", "", table_name)>> ELSE <<>>)
        \o (IF committed THEN <<Log("info", table_name)>>
                         ELSE <<Log("error", table_name)>>)
        \o <<Ev("cursor_close", "", table_name),
             Ev("conn_close", "", table_name)>>,
      conns |-> 0, cursors |-> 0,
      status |-> IF committed THEN "committed" ELSE "failed"]

\* -------------------------------------------------------------- raw tables
\* Raw rows in the three CSV files together.
MaxRows == 3

\* np.nan in a text column.  Text cells are sequences of characters, so no
\* text value is equal to it.
NaN == <<"NaN">>

\* np.nan in a numeric column (prices and stock quantities are not negative).
NaNNum == -1

NumCols == {"index", "price", "stock_quantity", "quantity", "unit_price"}

\* The text columns whose cells are character sequences in the model; the
\* cells of the other text columns (transaction_date, status) are never
\* missing.
StrCols ==
  {"customer_id", "product_id", "transaction_id", "first_name", "phone"}

\* pd.isna / isnull of the cell of column col in row r
isna(r, col) ==
  IF col \in NumCols THEN r[col] = NaNNum
  ELSE IF col \in StrCols THEN r[col] = NaN ELSE FALSE

\* pd.DataFrame(): no columns, no rows; what extraction returns for a file it
\* cannot read.  Any column access on it raises KeyError.
EmptyFrame == [columns |-> FALSE, rows |-> <<>>]

\* The frame read_csv builds from the rows of a file: a RangeIndex labels the
\* rows 0, 1, 2, ...
read_csv(file_rows) ==
  [columns |-> TRUE,
   rows |-> [i \in 1..Len(file_rows) |->
               [c \in DOMAIN file_rows[i] \cup {"index"} |->
                  IF c = "index" THEN i - 1 ELSE file_rows[i][c]]]]

\* A mobile number of the Indian numbering plan, written without prefix.
Mobile == <<"9", "8", "7", "6", "5", "4", "3", "2", "1", "0">>

RawCustomerRows ==
  [customer_id : {<<"C", "1">>, <<"D", "1">>, NaN},
   first_name : {<<"A", " ">>, <<"B">>},
   phone : {Mobile}]

\* Phone cells as customers_raw.csv may hold them: the number with the trunk
\* prefix 0, bare, in international form with a space, too short a number,
\* letters, and no value.
Phones ==
  {<<"0">> \o Mobile,
   Mobile,
   <<"+", "9", "1", " ">> \o Mobile,
   <<"1", "2", "3">>,
   <<"a", "b", "c">>,
   NaN}

\* Rows for the runs of clean_customers where the phone cell is varied.
PhoneCustomerRows ==
  [customer_id : {<<"C", "1">>, <<"C", "2">>},
   first_name : {<<"B">>},
   phone : Phones]

RawProductRows ==
  [product_id : {<<"P", "1">>, <<"P", "2">>, <<"P", "3">>},
   price : {100, 300, NaNNum},
   stock_quantity : {10, NaNNum}]

RawSaleRows ==
  [transaction_id : {<<"T", "1">>, <<"T", "2">>},
   customer_id : {<<"C", "1">>, NaN},
   product_id : {<<"P", "1">>, NaN},
   quantity : {2}, unit_price : {50},
   transaction_date : {"2024-01-15"}, status : {"Completed"}]

\* Rows for the runs of the whole script, where the cells that only the
\* cleaners look at are not varied.
PlainCustomerRows == {r \in RawCustomerRows : r.customer_id # <<"D", "1">>}

PlainProductRows ==
  {r \in RawProductRows : r.price = 100 /\ r.stock_quantity = 10}

PlainSaleRows == {r \in RawSaleRows : r.transaction_id = <<"T", "1">>}

\* The contents of one CSV file with n rows; a file with no row stands for a
\* file that cannot be read.
FilesOfLen(row_set, n) ==
  IF n = 0 THEN {EmptyFrame}
  ELSE {read_csv(f) : f \in [1..n -> row_set]}

\* How MaxRows rows at most can be spread over the three files.
Splits ==
  {m \in (0..MaxRows) \X (0..MaxRows) \X (0..MaxRows) :
     m[1] + m[2] + m[3] <= MaxRows}

\* The same with the rows in one file only, the other two unreadable.
OneFile == {m \in Splits : Cardinality({i \in 1..3 : m[i] > 0}) <= 1}

NoFiles ==
  [customers |-> EmptyFrame, products |-> EmptyFrame, sales |-> EmptyFrame]

\* --------------------------------------------------------- field helpers
\* str(val)[1:], or NaN for a missing value
remove_first_char(val) ==
  IF val = NaN THEN NaN ELSE IF val = <<>> THEN <<>> ELSE Tail(val)

RECURSIVE lstrip(_)
lstrip(s) == IF s # <<>> /\ Head(s) = " " THEN lstrip(Tail(s)) ELSE s

RECURSIVE rstrip(_)
rstrip(s) ==
  IF s # <<>> /\ s[Len(s)] = " " THEN rstrip(SubSeq(s, 1, Len(s) - 1)) ELSE s

\* Series.str.strip() on one cell; a missing value stays missing
strip(val) == IF val = NaN THEN NaN ELSE lstrip(rstrip(val))


\* trim_str_cols: every text column stripped, in place
trim_str_cols(rows) ==
  [i \in 1..Len(rows) |->
     [c \in DOMAIN rows[i] |->
        IF c \in StrCols THEN strip(rows[i][c]) ELSE rows[i][c]]]

\* The cells of a row without its index label.
Cells(r, cols) == [c \in cols |-> r[c]]

AllCols(r) == DOMAIN r \ {"index"}

\* keep='last'
drop_duplicates_keep_last(rows, cols) ==
  SelectSeq(rows,
            LAMBDA r : \A j \in 1..Len(rows) :
                         rows[j].index > r.index
                           => Cells(rows[j], cols) # Cells(r, cols))

\* df.drop_duplicates(subset=cols): of the rows equal on cols the first stays,
\* with its index label; missing values count as equal to each other.
drop_duplicates(rows, cols) ==
  SelectSeq(rows,
            LAMBDA r : \A j \in 1..Len(rows) :
                         rows[j].index < r.index
                           => Cells(rows[j], cols) # Cells(r, cols))

\* dropna whose result is thrown away
dropna_unassigned(rows, cols) == rows

\* df.dropna(subset=cols)
dropna(rows, cols) ==
  SelectSeq(rows, LAMBDA r : \A c \in cols : ~isna(r, c))

\* The date formats standardize_date tries first; every other text goes to
\* pandas' parser.
standardize_date(date_str) ==
  CASE date_str = "2024-01-15" -> "2024-01-15"
    [] date_str = "15/01/2024" -> "2024-01-15"
    [] OTHER -> "NaT"

\* func(val), func being the name of one of the cell functions
apply(func, val) ==
  CASE func = "remove_first_char" -> remove_first_char(val)
    [] func = "strip" -> strip(val)
    [] func = "standardize_date" -> standardize_date(val)

\* df[col] = df[col].apply(func)
apply_col(rows, col, func) ==
  [i \in 1..Len(rows) |-> [rows[i] EXCEPT ![col] = apply(func, @)]]

\* ---------------------------------------------------------- phonenumbers
Digit == {"0", "1", "2", "3", "4", "5", "6", "7", "8", "9"}

DigitsOf(phone) == SelectSeq(phone, LAMBDA ch : ch \in Digit)

\* phonenumbers.parse(phone, "IN") raises: for a value that is not a string
\* (the NaN of a missing cell), and for a string that is not a viable number
\* (a character other than digits, "+", space and "-", or under two digits).
parse_raises(phone) ==
  \/ phone = NaN
  \/ \E i \in 1..Len(phone) : phone[i] \notin Digit \cup {"+", " ", "-"}
  \/ Len(DigitsOf(phone)) < 2

\* parsed.national_number: the digits without the country code of a number
\* written with "+", else without the trunk prefix 0.
national_number(phone) ==
  LET d == DigitsOf(phone)
  IN IF phone[1] = "+" THEN SubSeq(d, 3, Len(d))
     ELSE IF d[1] = "0" THEN Tail(d)
     ELSE d

\* phonenumbers.is_valid_number, for the numbers of the model: ten digits,
\* the first from 6 to 9.
is_valid_number(national) ==
  Len(national) = 10 /\ national[1] \in {"6", "7", "8", "9"}

\* A standardize_phone whose except branch logs nothing.
standardize_phone_quiet(phone) ==
  IF parse_raises(phone) THEN [value |-> NaN, events |-> <<>>]
  ELSE IF is_valid_number(national_number(phone))
  THEN [value |-> <<"+", "9", "1", "-">> \o national_number(phone),
        events |-> <<>>]
  ELSE [value |-> NaN,
        events |-> <<Log("warning", "standardize_phone")>>]

\* standardize_phone: the value it returns and what it logs.
standardize_phone(phone) ==
  IF parse_raises(phone)
  THEN [value |-> NaN, events |-> <<Log("error", "standardize_phone")>>]
  ELSE IF is_valid_number(national_number(phone))
  THEN [value |-> <<"+", "9", "1", "-">> \o national_number(phone),
        events |-> <<>>]
  ELSE [value |-> NaN,
        events |-> <<Log("warning", "standardize_phone")>>]

\* customers_df['phone'].apply(standardize_phone): the cells in row order
apply_standardize_phone(rows) ==
  [i \in 1..Len(rows) |->
     [rows[i] EXCEPT !.phone = standardize_phone(@).value]]

\* What the calls of standardize_phone on the rows log, in row order.
RECURSIVE phone_events(_)
phone_events(rows) ==
  IF rows = <<>> THEN <<>>
  ELSE standardize_phone(Head(rows).phone).events \o phone_events(Tail(rows))

RowSet(rows) == {rows[i] : i \in 1..Len(rows)}

\* ---------------------------------------------------------------- cleaners
RECURSIVE sort(_)
sort(s) ==
  IF s = <<>> THEN <<>>
  ELSE LET rest == sort(Tail(s))
           below == SelectSeq(rest, LAMBDA v : v <= Head(s))
           above == SelectSeq(rest, LAMBDA v : v > Head(s))
       IN below \o <<Head(s)>> \o above

\* The non-missing values of a numeric column, in row order.
Values(rows, col) ==
  LET present == dropna(rows, {col})
  IN [i \in 1..Len(present) |-> present[i][col]]

\* A median that takes the lower of the two middle values instead of their
\* mean.
median_lower(rows, col) ==
  LET s == sort(Values(rows, col))
      n == Len(s)
  IN IF n = 0 THEN NaNNum ELSE s[(n + 1) \div 2]

\* Series.median(): missing values are skipped; the middle value, or the mean
\* of the two middle values (the modelled values are even, so the mean is
\* exact); NaN when every value is missing.
median(rows, col) ==
  LET s == sort(Values(rows, col))
      n == Len(s)
  IN IF n = 0 THEN NaNNum
     ELSE IF n % 2 = 1 THEN s[(n + 1) \div 2]
     ELSE (s[n \div 2] + s[n \div 2 + 1]) \div 2

\* df[col] = df[col].fillna(value)
fillna(rows, col, value) ==
  [i \in 1..Len(rows) |->
     IF isna(rows[i], col) THEN [rows[i] EXCEPT ![col] = value] ELSE rows[i]]

fill_missing_product_data_with_median(rows) ==
  LET priced == fillna(rows, "price", median(rows, "price"))
  IN fillna(priced, "stock_quantity", median(priced, "stock_quantity"))

\* What a cleaner hands back to main: the cleaned table, the caller's frame as
\* the cleaner left it (the id columns are rewritten and the text columns
\* trimmed in place, before drop_duplicates makes a new frame), and what it
\* logged.
Cleaned(df, raw, level, by) ==
  [df |-> df, raw |-> raw, events |-> <<Log(level, by)>>]

\* An except branch that swallows the exception without a log entry.
on_exception_silent(result, frame, by) ==
  [df |-> result, raw |-> frame, events |-> <<>>]

\* The except branch of a cleaner: the exception is logged as an error and
\* the cleaner returns (None where the branch has no return statement).
on_exception(result, frame, by) == Cleaned(result, frame, "error", by)

\* The columns of customers that the model leaves out (last_name, email,
\* city, registration_date) are rewritten cell by cell after the duplicates
\* are dropped; no row is added or removed there.
clean_customers(customers_df) ==
  IF ~customers_df.columns
  THEN on_exception(None, customers_df, "clean_customers")
  ELSE LET surrogate ==
             apply_col(customers_df.rows, "customer_id", "remove_first_char")
           trimmed == trim_str_cols(surrogate)
           deduped == drop_duplicates(trimmed, {"customer_id"})
           phoned == apply_standardize_phone(deduped)
       IN [Cleaned(DataFrame(RowSet(trim_str_cols(phoned))),
                   [customers_df EXCEPT !.rows = trimmed],
                   "info", "clean_customers")
             EXCEPT !.events = phone_events(deduped) \o @]

clean_products(products_df) ==
  IF ~products_df.columns
  THEN on_exception(None, products_df, "clean_products")
  ELSE LET surrogate ==
             apply_col(products_df.rows, "product_id", "remove_first_char")
           trimmed == trim_str_cols(surrogate)
           deduped == drop_duplicates(trimmed, {"product_id"})
           filled == fill_missing_product_data_with_median(deduped)
       IN Cleaned(DataFrame(RowSet(trim_str_cols(filled))),
                  [products_df EXCEPT !.rows = trimmed],
                  "info", "clean_products")

\* On an exception clean_sales returns pd.DataFrame(), the cleaned table with
\* no row.
clean_sales(sales_df) ==
  IF ~sales_df.columns
  THEN on_exception(<<>>, sales_df, "clean_sales")
  ELSE LET surrogate ==
             apply_col(
               apply_col(
                 apply_col(sales_df.rows, "customer_id",
                           "remove_first_char"),
                 "product_id", "remove_first_char"),
               "transaction_id", "remove_first_char")
           trimmed == trim_str_cols(surrogate)
           deduped == drop_duplicates(trimmed, {"transaction_id"})
           with_customer == dropna(deduped, {"customer_id"})
           with_product == dropna(with_customer, {"product_id"})
       IN Cleaned(apply_col(with_product, "transaction_date",
                            "standardize_date"),
                  [sales_df EXCEPT !.rows = trimmed],
                  "info", "clean_sales")

\* ---------------------------------------------------------- quality report
\* len(df.drop_duplicates()): whole rows compared
distinct_rows(rows) ==
  IF rows = <<>> THEN <<>> ELSE drop_duplicates(rows, AllCols(rows[1]))

generate_quality_report(df, file_name) ==
  LET cleaned_df ==
        IF file_name \in {"customers_raw.csv", "products_raw.csv"}
        THEN distinct_rows(df.rows)
        ELSE IF df.rows = <<>> THEN <<>>
             ELSE dropna(distinct_rows(df.rows), AllCols(df.rows[1]))
  IN [file |-> file_name,
      records_processed |-> Len(df.rows),
      duplicates_removed |-> Len(df.rows) - Len(distinct_rows(df.rows)),
      missing_values_handled |->
        Cardinality({x \in (1..Len(df.rows)) \X
                            (IF df.rows = <<>> THEN {}
                             ELSE AllCols(df.rows[1])) :
                       isna(df.rows[x[1]], x[2])}),
      records_loaded_successfully |-> Len(cleaned_df)]

\* --------------------------------------------------- product catalogue
\* Calls of update_review in a row, and reviews a product has at the start.
MaxCalls == 3

MaxReviews == 1

\* part2-nosql/mongodb_operations.py.  The products collection: for each
\* product_id of a document the number of entries of its reviews array.
ProductIds == {"ELEC001", "ELEC002", "ELEC003"}

\* The collection before the first call: ELEC003 is never in it.
Collections ==
  UNION {[ids -> 0..MaxReviews] : ids \in SUBSET {"ELEC001", "ELEC002"}}

\* Python values: an int, a tuple of two whose first component is an int,
\* and the name not yet bound.
PyInt(n) == [kind |-> "int", value |-> n]

PyTuple(n) == [kind |-> "tuple", first |-> n]

Unset == [kind |-> "unset"]

\* bool(v): an int is true when it is not 0, a tuple when it is not empty.
truth(v) == IF v.kind = "int" THEN v.value # 0 ELSE v.kind = "tuple"

\* collection.update_one({"product_id": id}, {"$push": {"reviews": review}})
update_one(coll, product_id) ==
  IF product_id \in DOMAIN coll
  THEN [collection |-> [coll EXCEPT ![product_id] = @ + 1],
        modified_count |-> 1]
  ELSE [collection |-> coll, modified_count |-> 0]

\* update_review: the collection after the call, the value it returns and
\* what it logs; f is "error" when update_one raises a PyMongoError.
update_review(coll, product_id, f) ==
  IF f = "error"
  THEN [collection |-> coll, value |-> PyInt(0),
        events |-> <<Log("error", "update_review")>>]
  ELSE LET result == update_one(coll, product_id)
       IN [collection |-> result.collection,
           value |-> PyTuple(result.modified_count),
           events |-> <<Log(IF result.modified_count # 0
                            THEN "info" ELSE "warning", "update_review")>>]

\* ------------------------------------------------------------------ main
VARIABLES
  pc,               \* main's position: index into MainOrder, then report, done
  store,            \* committed contents of the four tables
  env_ok,           \* the .env file holds all four credentials
  customers_clean,  \* clean_customers(customers)
  products_clean,   \* clean_products(products)
  sales_clean,      \* clean_sales(sales)
  orders,           \* split_sales_to_orders(sales_clean)
  order_items,      \* split_sales_to_order_items(sales_clean)
  trace,            \* the events of the run so far, in order
  outcome,          \* how each table load ended ("pending" before it ran)
  open_conns,       \* connections opened by a call and not closed by it
  open_cursors,     \* cursors opened by a call and not closed by it
  files,            \* the rows of the three raw CSV files
  customers,        \* main's frame of customers_raw.csv
  products,         \* main's frame of products_raw.csv
  sales,            \* main's frame of sales_raw.csv
  report,           \* the entries of data_quality_report.txt
  run,              \* number of the current run of the script
  first,            \* what the previous run left: its tables and the store
  collection,       \* the products collection of the document store
  updated_reviews   \* what update_review returned to its caller

vars ==
  <<pc, store, env_ok, customers_clean, products_clean, sales_clean, orders,
    order_items, trace, outcome, open_conns, open_cursors, files, customers,
    products, sales, report, run, first, collection, updated_reviews>>

\* What the catalogue script writes.
mongo == <<collection, updated_reviews>>

\* The ETL script does not touch the document store.
mongo_idle == collection = <<>> /\ updated_reviews = Unset

inputs == <<env_ok, customers_clean, products_clean, sales_clean, orders,
            order_items>>

\* What steps 1 to 3 of main and a rerun of the script write.
extracted == <<files, customers, products, sales, run, first>>

MainOrderSwapped == <<"order_items", "orders", "products", "customers">>

\* The load calls of main, in program order.
MainOrder == <<"customers", "products", "orders", "order_items">>

PcReport == Len(MainOrder) + 1
PcDone == PcReport + 1
PcCrashed == PcDone + 1

\* What a run leaves behind: the tables main built and the store.
Snapshot ==
  [customers_clean |-> customers_clean, products_clean |-> products_clean,
   sales_clean |-> sales_clean, orders |-> orders,
   order_items |-> order_items, store |-> store, outcome |-> outcome]

main_after_stop_on_no_conn(p, status) ==
  IF status = "raised" THEN PcCrashed
  ELSE IF status = "no_conn" THEN PcReport ELSE p + 1

main_after_stop_on_failed(p, status) ==
  IF status = "raised" THEN PcCrashed
  ELSE IF status = "failed" THEN PcReport ELSE p + 1

\* Where main goes after a load call: to the next statement, whatever the
\* call did, unless an exception left the call (main has no handler).
main_after(p, status) ==
  IF status = "raised" THEN PcCrashed ELSE p + 1

Init ==
  /\ pc = 1
  /\ store \in PriorStores
  /\ env_ok \in BOOLEAN
  /\ customers_clean \in {None} \cup {DataFrame(1..n) : n \in 0..MaxId}
  /\ products_clean \in {None} \cup {DataFrame(1..n) : n \in 0..MaxId}
  /\ sales_clean \in SalesTables
  /\ orders = DataFrame(split_sales_to_orders(sales_clean))
  /\ order_items = DataFrame(split_sales_to_order_items(sales_clean))
  /\ trace = <<>>
  /\ outcome = [t \in Tables |-> "pending"]
  /\ open_conns = 0
  /\ open_cursors = 0
  /\ files = NoFiles
  /\ customers = EmptyFrame
  /\ products = EmptyFrame
  /\ sales = EmptyFrame
  /\ report = <<>>
  /\ run = 1
  /\ first = Snapshot
  /\ mongo_idle

\* One load_data_to_<table>_db call of main.
load_step(table_name, df, delete_queries) ==
  /\ pc \in 1..Len(MainOrder)
  /\ MainOrder[pc] = table_name
  /\ \E f \in faults(table_name, df, delete_queries, env_ok) :
       LET r == load_data_to_table(df, table_name, delete_queries, store,
                                   env_ok, f)
       IN /\ store' = r.store
          /\ trace' = trace \o <<Ev("call", "", table_name)>> \o r.events
                        \o <<Ev(IF r.status = "raised" THEN "raise"
                                ELSE "return", "", table_name)>>
          /\ outcome' = [outcome EXCEPT ![table_name] = r.status]
          /\ open_conns' = open_conns + r.conns
          /\ open_cursors' = open_cursors + r.cursors
          /\ pc' = main_after(pc, r.status)
  /\ UNCHANGED mongo
  /\ UNCHANGED <<inputs, extracted, report>>

load_data_to_customers_db ==
  load_step("customers", customers_clean,
            <<"order_items", "orders", "customers">>)

load_data_to_products_db ==
  load_step("products", products_clean, <<"order_items", "products">>)

load_data_to_orders_db ==
  load_step("orders", orders, <<"orders">>)

load_data_to_order_items_db ==
  load_step("order_items", order_items, <<"order_items">>)

write_data_quality_report ==
  /\ pc = PcReport
  /\ pc' = PcDone
  /\ trace' = trace \o <<Ev("report", "", "main")>>
  /\ report' = <<generate_quality_report(customers, "customers_raw.csv"),
                 generate_quality_report(products, "products_raw.csv"),
                 generate_quality_report(sales, "sales_raw.csv")>>
  /\ UNCHANGED <<store, outcome, open_conns, open_cursors>>
  /\ UNCHANGED mongo
  /\ UNCHANGED <<inputs, extracted>>

Next ==
  \/ load_data_to_customers_db
  \/ load_data_to_products_db
  \/ load_data_to_orders_db
  \/ load_data_to_order_items_db
  \/ write_data_quality_report

Spec == Init /\ [][Next]_vars

\* ---------------------------------------------------------------- claims
Idx == 1..Len(trace)

\* Place of a table load in the sequence the specification fixes.
Pos(t) ==
  CASE t = "customers" -> 1
    [] t = "products" -> 2
    [] t = "orders" -> 3
    [] t = "order_items" -> 4

\* The table handed to the load of t.
InputOf(t) ==
  CASE t = "customers" -> customers_clean
    [] t = "products" -> products_clean
    [] t = "orders" -> orders
    [] t = "order_items" -> order_items

\* The tables the load of t empties before it inserts.
DeletedBy(t) ==
  CASE t = "customers" -> {"order_items", "orders", "customers"}
    [] t = "products" -> {"order_items", "products"}
    [] t = "orders" -> {"orders"}
    [] t = "order_items" -> {"order_items"}

\* This step is the load call of t.
Loads(t) == outcome[t] = "pending" /\ outcome'[t] # "pending"

\* The events this step adds to the trace.
NewEvents == SubSeq(trace', Len(trace) + 1, Len(trace'))

\* Event i is a statement op on table arg.
Stmt(i, op, arg) == trace[i].op = op /\ trace[i].arg = arg

\* The call of t has ended (returned or raised) before event i.
EndedBefore(t, i) ==
  \E j \in 1..(i - 1) : trace[j].by = t /\ trace[j].op \in {"return", "raise"}

FKValid(db) ==
  /\ \A o \in db.orders : o.customer_id \in db.customers
  /\ \A it \in db.order_items :
       /\ it.order_id \in {o.order_id : o \in db.orders}
       /\ it.product_id \in db.products

\* C1: a table load is all-or-nothing.  A load that ends without committing
\* leaves the committed contents of all four tables as they were before the
\* call; a load that commits makes all its deletes and its insert visible
\* together.
C1_LoadAtomic ==
  [][\A t \in Tables :
       Loads(t) =>
         IF outcome'[t] = "committed"
         THEN store' = [u \in Tables |->
                          IF u = t THEN InputOf(t).rows
                          ELSE IF u \in DeletedBy(t) THEN {}
                          ELSE store[u]]
         ELSE store' = store]_vars

\* A customers load whose deletes and insert ran and whose commit failed:
\* the old rows of all four tables are still there.
C1_Witness ==
  /\ outcome["customers"] = "failed"
  /\ \E i \in Idx : trace[i] = Ev("commit", "", "customers")
  /\ store = SeededStore

\* C2: the loads are called in the sequence customers, products, orders,
\* order_items; no insert into orders before the customers load has ended,
\* no insert into order_items before the products and orders loads ended.
C2_FixedSequence ==
  LET calls == SelectSeq(trace, LAMBDA e : e.op = "call")
      fixed == <<"customers", "products", "orders", "order_items">>
  IN /\ Len(calls) <= Len(fixed)
     /\ \A k \in 1..Len(calls) : k <= Len(fixed) /\ calls[k].by = fixed[k]
     /\ \A i \in Idx :
          Stmt(i, "insert", "orders") => EndedBefore("customers", i)
     /\ \A i \in Idx :
          Stmt(i, "insert", "order_items") =>
            EndedBefore("products", i) /\ EndedBefore("orders", i)

C2_Witness ==
  /\ \E i \in Idx : Stmt(i, "insert", "orders")
  /\ \E i \in Idx : Stmt(i, "insert", "order_items")

\* The places in the trace of statement op on table arg.
Places(op, arg) == {i \in Idx : Stmt(i, op, arg)}

\* C3: no DELETE on products is issued after an INSERT into order_items.
C3_NoProductsDeleteAfterItemsInsert ==
  \A i \in Places("insert", "order_items") :
    \A j \in Places("delete", "products") : j < i

\* Both statements occur in one run in which the customers load failed.
C3_Witness ==
  /\ outcome["customers"] = "failed"
  /\ Places("insert", "order_items") # {}
  /\ Places("delete", "products") # {}

\* C4 as stated: after a load that could not get a connection, no later
\* load of the run attempts a connection or issues a DELETE or an INSERT.
C4_AsStated ==
  \A t \in Tables :
    outcome[t] = "no_conn" =>
      \A i \in Idx :
        (trace[i].by \in Tables /\ Pos(trace[i].by) > Pos(t)) =>
          trace[i].op \notin {"connect", "delete", "insert"}

\* C4 (amended): a load that could not get a connection issues no DELETE and
\* no INSERT and returns; the run goes on: once main is past the next load
\* of the sequence, that load has been called, and with a non-empty input
\* and credentials present it has made its own connection attempt.
C4_NoEscalation ==
  \A t \in Tables :
    outcome[t] = "no_conn" =>
      /\ \A i \in Idx :
           trace[i].by = t => trace[i].op \notin {"delete", "insert", "raise"}
      /\ pc > Pos(t)
      /\ \A u \in Tables :
           Pos(u) = Pos(t) + 1 /\ pc > Pos(u) =>
             /\ outcome[u] # "pending"
             /\ \E i \in Idx : trace[i] = Ev("call", "", u)
             /\ (env_ok /\ ~InputOf(u).is_none /\ InputOf(u).rows # {})
                  => \E i \in Idx : trace[i] = Ev("connect", "", u)

\* The customers load got no connection and the products load committed.
C4_Witness ==
  /\ outcome["customers"] = "no_conn"
  /\ outcome["products"] = "committed"

\* C5: when the customers load fails after its connection was established
\* (a statement or the commit raised), it returns, and the products load is
\* called next and, with a non-empty input, attempts its own connection.
C5_ProductsAfterCustomersFailure ==
  outcome["customers"] = "failed" =>
    /\ pc > Pos("customers")
    /\ \A i \in Idx : trace[i].by = "customers" => trace[i].op # "raise"
    /\ pc > Pos("products") =>
         /\ outcome["products"] # "pending"
         /\ \E i \in Idx : trace[i] = Ev("call", "", "products")
         /\ (~products_clean.is_none /\ products_clean.rows # {})
              => \E i \in Idx : trace[i] = Ev("connect", "", "products")

\* The customers load failed at a statement and the products load committed.
C5_Witness ==
  /\ outcome["customers"] = "failed"
  /\ \E i \in Idx : trace[i] = Ev("delete", "order_items", "customers")
  /\ outcome["products"] = "committed"
  /\ store.products = products_clean.rows

\* C6: a load whose input is None or has no rows opens no connection, runs
\* no schema creation, issues no DELETE and no INSERT, writes a log record
\* and leaves the committed store unchanged.
C6_SkipEmptyInput ==
  [][\A t \in Tables :
       Loads(t) /\ (InputOf(t).is_none \/ InputOf(t).rows = {}) =>
         /\ store' = store
         /\ open_conns' = open_conns
         /\ open_cursors' = open_cursors
         /\ \A i \in 1..Len(NewEvents) :
              NewEvents[i].op \notin
                {"connect", "conn_open", "cursor_open", "schema", "delete",
                 "insert", "commit"}
         /\ \E i \in 1..Len(NewEvents) : NewEvents[i].op = "log"]_vars

\* One load skipped for an empty table and one for None, on a store that
\* holds rows.
C6_Witness ==
  /\ outcome["customers"] = "skipped" /\ ~customers_clean.is_none
  /\ outcome["products"] = "skipped" /\ products_clean.is_none
  /\ store = SeededStore

\* C7 as stated: schema creation for the four tables has run before the
\* first DELETE or INSERT of the run.
C7_SchemaBeforeData ==
  \A i \in Idx :
    trace[i].op \in {"delete", "insert"} =>
      \E j \in 1..(i - 1) : trace[j].op = "schema"

\* C8 as stated: every connection and cursor a load call opened is closed
\* when the call has ended.
C8_ResourcesReleased ==
  open_conns = 0 /\ open_cursors = 0

\* C9 as stated: no load call lets an exception reach main, so main is
\* never stopped before the quality report.
C9_NoExceptionEscapes ==
  /\ pc # PcCrashed
  /\ \A i \in Idx : trace[i].op # "raise"

\* C10: every committed state of a run satisfies the foreign keys: every
\* orders row has its customers row, every order_items row has its orders
\* row and its products row.
C10_ForeignKeysHold == FKValid(store)

\* The state left by a crash between the customers commit and the products
\* load: customers refreshed, orders and order_items emptied, old products.
C10_Witness ==
  /\ outcome["customers"] = "committed"
  /\ outcome["products"] = "raised"
  /\ pc = PcCrashed
  /\ store.products # {}
  /\ store.orders = {}

\* ============================================================ whole script
\* The script from its first statement: extraction, the three cleaners, the
\* two splits, the four loads and the report, and the script run again on
\* the same files.  The store and the driver do not fail on their own here:
\* a load fails only on what the data makes the store refuse.

\* Runs of the script in a row.
MaxRuns == 2

PcExtract == -5
PcCleanCustomers == -4
PcCleanProducts == -3
PcCleanSales == -2
PcSplitOrders == -1
PcSplitItems == 0

\* main's locals before its first statement has run
fresh ==
  /\ customers = EmptyFrame
  /\ products = EmptyFrame
  /\ sales = EmptyFrame
  /\ customers_clean = None
  /\ products_clean = None
  /\ sales_clean = <<>>
  /\ orders = DataFrame({})
  /\ order_items = DataFrame({})
  /\ outcome = [t \in Tables |-> "pending"]
  /\ report = <<>>

\* The three files of ../data hold n[1], n[2] and n[3] rows, drawn from the
\* given sets.
FilesAre(n, customer_rows, product_rows, sale_rows) ==
  \E c \in FilesOfLen(customer_rows, n[1]) :
    \E p \in FilesOfLen(product_rows, n[2]) :
      \E s \in FilesOfLen(sale_rows, n[3]) :
        files = [customers |-> c, products |-> p, sales |-> s]

InitEtl ==
  /\ pc = PcExtract
  /\ \E n \in Splits :
       FilesAre(n, PlainCustomerRows, PlainProductRows, PlainSaleRows)
  /\ store = EmptyStore
  /\ env_ok = TRUE
  /\ fresh
  /\ trace = <<>>
  /\ open_conns = 0
  /\ open_cursors = 0
  /\ run = 1
  /\ first = Snapshot
  /\ mongo_idle

loads == <<store, outcome, open_conns, open_cursors>>

\* customers, products, sales = extract_raw_data_from_csv()
extract_raw_data_from_csv ==
  /\ pc = PcExtract
  /\ customers' = files.customers
  /\ products' = files.products
  /\ sales' = files.sales
  /\ trace' = trace
       \o [i \in 1..3 |->
             Log(IF <<files.customers, files.products, files.sales>>[i].columns
                 THEN "info" ELSE "error", "extract_raw_data_from_csv")]
  /\ pc' = PcCleanCustomers
  /\ UNCHANGED mongo
  /\ UNCHANGED <<loads, env_ok, customers_clean, products_clean, sales_clean,
                 orders, order_items, files, report, run, first>>

\* customers_clean = clean_customers(customers)
main_clean_customers ==
  /\ pc = PcCleanCustomers
  /\ \E r \in {clean_customers(customers)} :
        /\ customers_clean' = r.df
        /\ customers' = r.raw
        /\ trace' = trace \o r.events
  /\ pc' = PcCleanProducts
  /\ UNCHANGED mongo
  /\ UNCHANGED <<loads, env_ok, products_clean, sales_clean, orders,
                 order_items, files, products, sales, report, run, first>>

\* products_clean = clean_products(products)
main_clean_products ==
  /\ pc = PcCleanProducts
  /\ \E r \in {clean_products(products)} :
        /\ products_clean' = r.df
        /\ products' = r.raw
        /\ trace' = trace \o r.events
  /\ pc' = PcCleanSales
  /\ UNCHANGED mongo
  /\ UNCHANGED <<loads, env_ok, customers_clean, sales_clean, orders,
                 order_items, files, customers, sales, report, run, first>>

\* sales_clean = clean_sales(sales)
main_clean_sales ==
  /\ pc = PcCleanSales
  /\ \E r \in {clean_sales(sales)} :
        /\ sales_clean' = r.df
        /\ sales' = r.raw
        /\ trace' = trace \o r.events
  /\ pc' = PcSplitOrders
  /\ UNCHANGED mongo
  /\ UNCHANGED <<loads, env_ok, customers_clean, products_clean, orders,
                 order_items, files, customers, products, report, run, first>>

\* A split whose except branch logs nothing.
split_events_quiet(has_columns, by) ==
  IF has_columns THEN <<Log("info", by)>> ELSE <<>>

\* What a split of the sales logs last: the first access to a column of a
\* frame without columns raises KeyError, which the except branch logs as an
\* error before it returns pd.DataFrame(); else the split logs its result.
split_events(has_columns, by) ==
  <<Log(IF has_columns THEN "info" ELSE "error", by)>>

\* orders = split_sales_to_orders(sales_clean).  sales_clean is a frame
\* without columns exactly when clean_sales returned pd.DataFrame() from its
\* except branch, which it does on a raw frame without columns.
main_split_orders ==
  /\ pc = PcSplitOrders
  /\ orders' = DataFrame(split_sales_to_orders(sales_clean))
  /\ trace' = trace \o split_events(sales.columns, "split_sales_to_orders")
  /\ pc' = PcSplitItems
  /\ UNCHANGED mongo
  /\ UNCHANGED <<loads, env_ok, customers_clean, products_clean, sales_clean,
                 order_items, extracted, report>>

\* order_items = split_sales_to_order_items(sales_clean)
main_split_order_items ==
  /\ pc = PcSplitItems
  /\ order_items' = DataFrame(split_sales_to_order_items(sales_clean))
  /\ trace' = trace
                \o split_events(sales.columns, "split_sales_to_order_items")
  /\ pc' = 1
  /\ UNCHANGED mongo
  /\ UNCHANGED <<loads, env_ok, customers_clean, products_clean, sales_clean,
                 orders, extracted, report>>

\* The rows a load inserts: of customers and products the store model keeps
\* the key column.
KeyRows(df, col) ==
  IF df.is_none THEN None ELSE DataFrame({r[col] : r \in df.rows})

\* cursor.executemany with a float nan among the values of df[columns]: the
\* driver writes it as the bare word nan and the statement is refused.
data_fault(df) ==
  IF /\ ~df.is_none
     /\ \E r \in df.rows : \E c \in AllCols(r) : isna(r, c)
  THEN [NoFault EXCEPT !.stmt = "insert"] ELSE NoFault

\* One load_data_to_<table>_db call of main, the store and the driver sound.
etl_load_step(table_name, df, delete_queries, f) ==
  /\ pc \in 1..Len(MainOrder)
  /\ MainOrder[pc] = table_name
  /\ \E r \in {load_data_to_table(df, table_name, delete_queries, store,
                                   env_ok, f)} :
        /\ store' = r.store
        /\ trace' = trace \o <<Ev("call", "", table_name)>> \o r.events
                      \o <<Ev(IF r.status = "raised" THEN "raise"
                              ELSE "return", "", table_name)>>
        /\ outcome' = [outcome EXCEPT ![table_name] = r.status]
        /\ open_conns' = open_conns + r.conns
        /\ open_cursors' = open_cursors + r.cursors
        /\ pc' = main_after(pc, r.status)
  /\ UNCHANGED mongo
  /\ UNCHANGED <<inputs, extracted, report>>

etl_load_customers ==
  etl_load_step("customers", KeyRows(customers_clean, "customer_id"),
                <<"order_items", "orders", "customers">>,
                data_fault(customers_clean))

etl_load_products ==
  etl_load_step("products", KeyRows(products_clean, "product_id"),
                <<"order_items", "products">>, data_fault(products_clean))

etl_load_orders ==
  etl_load_step("orders", orders, <<"orders">>, data_fault(orders))

etl_load_order_items ==
  etl_load_step("order_items", order_items, <<"order_items">>,
                data_fault(order_items))

\* The script is started again on the same files: a new process, the store
\* and the log file as the run before left them.
rerun ==
  /\ pc = PcDone
  /\ run < MaxRuns
  /\ run' = run + 1
  /\ first' = Snapshot
  /\ pc' = PcExtract
  /\ customers' = EmptyFrame
  /\ products' = EmptyFrame
  /\ sales' = EmptyFrame
  /\ customers_clean' = None
  /\ products_clean' = None
  /\ sales_clean' = <<>>
  /\ orders' = DataFrame({})
  /\ order_items' = DataFrame({})
  /\ outcome' = [t \in Tables |-> "pending"]
  /\ report' = <<>>
  /\ UNCHANGED mongo
  /\ UNCHANGED <<store, env_ok, trace, open_conns, open_cursors, files>>

NextEtl ==
  \/ extract_raw_data_from_csv
  \/ main_clean_customers
  \/ main_clean_products
  \/ main_clean_sales
  \/ main_split_orders
  \/ main_split_order_items
  \/ etl_load_customers
  \/ etl_load_products
  \/ etl_load_orders
  \/ etl_load_order_items
  \/ write_data_quality_report
  \/ rerun

SpecEtl == InitEtl /\ [][NextEtl]_vars

\* ------------------------------------------------- cleaners and splits
\* Steps 1 to 3 of main on one raw file at a time, every cell varied: a
\* cleaner reads its own table only.
InitClean ==
  /\ pc = PcExtract
  /\ \E n \in OneFile :
       FilesAre(n, RawCustomerRows, RawProductRows, RawSaleRows)
  /\ store = EmptyStore
  /\ env_ok = TRUE
  /\ fresh
  /\ trace = <<>>
  /\ open_conns = 0
  /\ open_cursors = 0
  /\ run = 1
  /\ first = Snapshot
  /\ mongo_idle

NextClean ==
  \/ extract_raw_data_from_csv
  \/ main_clean_customers
  \/ main_clean_products
  \/ main_clean_sales
  \/ main_split_orders
  \/ main_split_order_items

SpecClean == InitClean /\ [][NextClean]_vars

\* ------------------------------------------- whole script, with faults
\* The fault f of the store or the driver, and the fault the data brings:
\* executemany is refused on a missing value, before the commit is tried.
with_data_fault(f, df) ==
  IF data_fault(df) # NoFault /\ f.stmt \in {"ok", "commit"}
  THEN [f EXCEPT !.stmt = "insert"] ELSE f

\* One load_data_to_<table>_db call of main; what the store and the driver
\* do to the call is drawn from faults(...).
faulty_load_step(table_name, df, delete_queries, clean) ==
  \E f \in faults(table_name, df, delete_queries, env_ok) :
    etl_load_step(table_name, df, delete_queries, with_data_fault(f, clean))

faulty_load_customers ==
  faulty_load_step("customers", KeyRows(customers_clean, "customer_id"),
                   <<"order_items", "orders", "customers">>, customers_clean)

faulty_load_products ==
  faulty_load_step("products", KeyRows(products_clean, "product_id"),
                   <<"order_items", "products">>, products_clean)

faulty_load_orders ==
  faulty_load_step("orders", orders, <<"orders">>, orders)

faulty_load_order_items ==
  faulty_load_step("order_items", order_items, <<"order_items">>,
                   order_items)

\* One run of the script, with or without the credentials in .env.
InitFaulty ==
  /\ pc = PcExtract
  /\ \E n \in Splits :
       FilesAre(n, PlainCustomerRows, PlainProductRows, PlainSaleRows)
  /\ store = EmptyStore
  /\ env_ok \in BOOLEAN
  /\ fresh
  /\ trace = <<>>
  /\ open_conns = 0
  /\ open_cursors = 0
  /\ run = 1
  /\ first = Snapshot
  /\ mongo_idle

NextFaulty ==
  \/ extract_raw_data_from_csv
  \/ main_clean_customers
  \/ main_clean_products
  \/ main_clean_sales
  \/ main_split_orders
  \/ main_split_order_items
  \/ faulty_load_customers
  \/ faulty_load_products
  \/ faulty_load_orders
  \/ faulty_load_order_items
  \/ write_data_quality_report

SpecFaulty == InitFaulty /\ [][NextFaulty]_vars

\* --------------------------------------------- catalogue: update_review
PcMongo == PcCrashed + 1

Calls == {i \in 1..Len(trace) : trace[i].op = "call"}

InitMongo ==
  /\ pc = PcMongo
  /\ collection \in Collections
  /\ updated_reviews = Unset
  /\ files = NoFiles
  /\ store = EmptyStore
  /\ env_ok = TRUE
  /\ fresh
  /\ trace = <<>>
  /\ open_conns = 0
  /\ open_cursors = 0
  /\ run = 1
  /\ first = [customers_clean |-> None, products_clean |-> None,
              sales_clean |-> <<>>, orders |-> DataFrame({}),
              order_items |-> DataFrame({}), store |-> EmptyStore,
              outcome |-> [t \in Tables |-> "pending"]]

\* updated_reviews = update_review(collection, product_id, ...), and the
\* message main logs on testing the result for truth.
main_update_review ==
  /\ pc = PcMongo
  /\ Cardinality(Calls) < MaxCalls
  /\ \E product_id \in ProductIds, f \in {"ok", "error"} :
       \E r \in {update_review(collection, product_id, f)} :
         /\ collection' = r.collection
         /\ updated_reviews' = r.value
         /\ trace' = trace
                       \o <<Ev("call", product_id, "update_review")>>
                       \o r.events
                       \o <<Ev("said",
                               IF truth(r.value) THEN "Review added."
                               ELSE "Product not found or review not added.",
                               "main")>>
  /\ UNCHANGED <<pc, loads, inputs, extracted, report>>

NextMongo == main_update_review

SpecMongo == InitMongo /\ [][NextMongo]_vars

\* -------------------------------------------------------- phone cells
\* Steps 1 and 2 of main on a customers file whose phone cells are varied.
InitPhone ==
  /\ pc = PcExtract
  /\ \E k \in 1..MaxRows :
       FilesAre(<<k, 0, 0>>, PhoneCustomerRows, RawProductRows, RawSaleRows)
  /\ store = EmptyStore
  /\ env_ok = TRUE
  /\ fresh
  /\ trace = <<>>
  /\ open_conns = 0
  /\ open_cursors = 0
  /\ run = 1
  /\ first = Snapshot
  /\ mongo_idle

NextPhone ==
  \/ extract_raw_data_from_csv
  \/ main_clean_customers

SpecPhone == InitPhone /\ [][NextPhone]_vars

\* -------------------------------------------------- claims, whole script
NoLoadFailed(o) == \A t \in Tables : o[t] \in {"committed", "skipped"}

\* C11: when the script is run again on the same raw files and no table load
\* of the run before failed, the rerun ends with the same cleaned customers,
\* products and sales, the same orders and order items, every load ending
\* as it did before, and the same rows in the four tables of the store.
C11_RerunIdempotent ==
  (pc = PcDone /\ run > 1 /\ NoLoadFailed(first.outcome))
    => /\ customers_clean = first.customers_clean
       /\ products_clean = first.products_clean
       /\ sales_clean = first.sales_clean
       /\ orders = first.orders
       /\ order_items = first.order_items
       /\ outcome = first.outcome
       /\ store = first.store

\* A rerun has ended after a run that committed all four tables.
C11_Witness ==
  /\ pc = PcDone
  /\ run > 1
  /\ \A t \in Tables : first.outcome[t] = "committed"
  /\ \A t \in Tables : store[t] # {}

\* Both splits of the current run have been made.
SplitDone == pc \in 1..PcDone

\* C12: once the sales are split, the order item made from the row at
\* position k of the cleaned sales (counted from 1) has order_item_id k, so
\* the ids of the n order items are exactly 1..n, whatever raw rows the
\* cleaner removed before the rows that are left.
C12_ItemIdsArePositions ==
  SplitDone =>
    /\ \A k \in 1..Len(sales_clean) :
         \E it \in order_items.rows :
           /\ it.order_id = sales_clean[k].transaction_id
           /\ it.order_item_id = k
    /\ {it.order_item_id : it \in order_items.rows} = 1..Len(sales_clean)

\* clean_sales of the current run has returned.
SalesCleaned == pc \in PcSplitOrders..PcDone

\* The rows of sales_raw.csv as the file holds them.
RawSales == files.sales.rows

\* Index labels of the raw sales rows with transaction id t.
Sharing(t) == {r.index : r \in {x \in RowSet(RawSales) : x.transaction_id = t}}

First(t) == CHOOSE i \in Sharing(t) : \A j \in Sharing(t) : i <= j

\* Index labels of the cleaned sales rows made from raw rows with id t.
KeptOf(t) == {r.index : r \in RowSet(sales_clean)} \cap Sharing(t)

\* The id under which the store knows raw id t.
Surrogate(t) == strip(remove_first_char(t))

RawRow(i) == CHOOSE r \in RowSet(RawSales) : r.index = i

Complete(r) == r.customer_id # NaN /\ r.product_id # NaN

Shared == {t \in {r.transaction_id : r \in RowSet(RawSales)} :
             Cardinality(Sharing(t)) > 1}

CustomersCleaned ==
  pc \in PcCleanProducts..PcDone /\ ~customers_clean.is_none

RawCustomers == files.customers.rows

\* C14: the cleaned customers hold no two rows with the same surrogate id,
\* and exactly one row for each distinct customer id of the raw file: of the
\* raw rows with one id exactly one is kept, so raw rows with different ids
\* are never merged.
C14_OneRowPerRawId ==
  CustomersCleaned =>
    /\ \A r1, r2 \in customers_clean.rows :
         r1.customer_id = r2.customer_id => r1 = r2
    /\ \A t \in {r.customer_id : r \in RowSet(RawCustomers)} :
         Cardinality({c \in customers_clean.rows :
                        RawCustomers[c.index + 1].customer_id = t}) = 1

\* C15: every row of the cleaned customers has a surrogate id, and no raw row
\* whose customer_id is missing is among the cleaned rows.
C15_NoMissingCustomerId ==
  CustomersCleaned =>
    \A c \in customers_clean.rows :
      /\ c.customer_id # NaN
      /\ RawCustomers[c.index + 1].customer_id # NaN

\* C16: every row of the cleaned sales has a customer id and a product id; a
\* raw row that lacks either is not among the cleaned rows, no part of it;
\* and the two drop steps remove nothing else: a raw row with both ids that
\* is the first of its transaction id is among the cleaned rows.
C16_SalesHaveBothIds ==
  SalesCleaned =>
    /\ \A i \in 1..Len(sales_clean) :
         /\ sales_clean[i].customer_id # NaN
         /\ sales_clean[i].product_id # NaN
    /\ \A r \in RowSet(RawSales) :
         (r.index \in KeptOf(r.transaction_id))
           <=> (Complete(r) /\ r.index = First(r.transaction_id))

\* Cleaned sales of a batch with a row that lacks an id and a row that has
\* both.
C16_Witness ==
  /\ SalesCleaned
  /\ sales_clean # <<>>
  /\ \E r \in RowSet(RawSales) : r.customer_id = NaN /\ r.product_id # NaN
  /\ Len(sales_clean) < Len(RawSales)

\* Error entries a cleaner has written to the log.
ErrorsOf(by) == {i \in Idx : trace[i] = Log("error", by)}

\* The load of table t has been called in the current run.
LoadCalled(t) == pc \in (Pos(t) + 1)..PcDone

C18_SplitRows ==
  SplitDone =>
    /\ {o.order_id : o \in orders.rows}
         = {r.transaction_id : r \in RowSet(sales_clean)}
    /\ \A r \in RowSet(sales_clean) :
         /\ \A o \in orders.rows :
              o.order_id = r.transaction_id
                => /\ o.total_amount = r.quantity * r.unit_price
                   /\ o.customer_id = r.customer_id
         /\ Cardinality({o \in orders.rows :
                           o.order_id = r.transaction_id}) = 1
         /\ Cardinality({it \in order_items.rows :
                           /\ it.order_id = r.transaction_id
                           /\ it.product_id = r.product_id
                           /\ it.subtotal = r.quantity * r.unit_price}) = 1
    /\ Cardinality(order_items.rows) = Len(sales_clean)

\* The split of a cleaned sales table with two transactions.
C18_Witness ==
  /\ SplitDone
  /\ Len(sales_clean) = 2
  /\ Cardinality(orders.rows) = 2

ProductsCleaned == pc \in PcCleanSales..PcDone /\ ~products_clean.is_none

\* The rows of products_raw.csv as the file holds them.
RawProducts == files.products.rows

\* The deduplicated batch before any fill: of the raw rows with one product
\* id, the first in file order.
Batch ==
  {r \in RowSet(RawProducts) :
     \A q \in RowSet(RawProducts) :
       Surrogate(q.product_id) = Surrogate(r.product_id)
         => r.index <= q.index}

\* The rows of the batch whose cell in col holds a value.
Present(col) == {r \in Batch : r[col] # NaNNum}

\* m is the median of the values present in col: the mean of the values at
\* the two middle places of the sorted values (one place when their number
\* is odd).
IsMedian(m, col) ==
  LET n == Cardinality(Present(col))
      Below(v) == Cardinality({r \in Present(col) : r[col] < v})
      UpTo(v) == Cardinality({r \in Present(col) : r[col] <= v})
  IN \E lo, hi \in {r[col] : r \in Present(col)} :
       /\ 2 * m = lo + hi
       /\ Below(lo) <= (n - 1) \div 2
       /\ (n - 1) \div 2 < UpTo(lo)
       /\ Below(hi) <= n \div 2
       /\ n \div 2 < UpTo(hi)

\* The cleaned cell c[col] made from the raw row r: a value that is present
\* stays, a missing one becomes the median of the present values of the
\* batch (and stays missing when the batch has no value in col).
FilledFrom(c, r, col) ==
  IF r[col] # NaNNum THEN c[col] = r[col]
  ELSE IF Present(col) = {} THEN c[col] = NaNNum
  ELSE IsMedian(c[col], col)

\* The two fills of fill_missing_product_data_with_median in the other order.
fill_stock_then_price(rows) ==
  LET stocked == fillna(rows, "stock_quantity", median(rows, "stock_quantity"))
  IN fillna(stocked, "price", median(stocked, "price"))

\* C19: in clean_products every missing price becomes the median of the
\* non-missing prices of the deduplicated batch and every missing
\* stock_quantity the median of its non-missing stock quantities, both taken
\* over the values before any fill; values that are present stay as they
\* are; and filling stock first and price second gives the same table.
C19_MedianFill ==
  ProductsCleaned =>
    /\ {c.index : c \in products_clean.rows} = {r.index : r \in Batch}
    /\ \A c \in products_clean.rows :
         \A r \in Batch :
           r.index = c.index =>
             /\ FilledFrom(c, r, "price")
             /\ FilledFrom(c, r, "stock_quantity")
    /\ products_clean.rows =
         RowSet(trim_str_cols(fill_stock_then_price(
           drop_duplicates(products.rows, {"product_id"}))))

\* A batch of three products with prices 100, missing and 300, a stock
\* quantity missing too: the missing price is filled with 200.
C19_Witness ==
  /\ ProductsCleaned
  /\ Cardinality(Batch) = 3
  /\ {r.price : r \in Batch} = {100, NaNNum, 300}
  /\ \E r \in Batch : r.stock_quantity = NaNNum
  /\ \E c \in products_clean.rows :
       /\ \E r \in Batch : r.index = c.index /\ r.price = NaNNum
       /\ c.price = 200
       /\ c.stock_quantity = 10

\* ----------------------------------------------- claims, quality report
Reported == pc = PcDone /\ report # <<>>

\* C20: for each of the three raw sources, the figure of rows surviving
\* cleaning in the quality report ("Records Loaded Successfully") is the
\* number of rows of the cleaned table its cleaner produced in the same run.
C20_ReportCountsCleanedRows ==
  Reported =>
    /\ report[1].records_loaded_successfully =
         Cardinality(customers_clean.rows)
    /\ report[2].records_loaded_successfully =
         Cardinality(products_clean.rows)
    /\ report[3].records_loaded_successfully = Len(sales_clean)

\* ------------------------------------------------ claims, field normalizers
\* clean_customers of the current run has been called on a readable file.
PhonesDone == pc \in PcCleanProducts..PcDone /\ files.customers.columns

\* Phone cells that phonenumbers cannot parse, and cells that it parses to a
\* number that is not valid.
Unparsable == {NaN, <<"a", "b", "c">>}

ParsedInvalid == {<<"1", "2", "3">>}

\* The raw customer rows that survive the deduplication and whose phone cell
\* is unparsable or invalid, in file order; standardize_phone is called on
\* the surviving rows only.
BadPhoneRows ==
  SelectSeq(RawCustomers,
            LAMBDA r :
              /\ r.phone \in Unparsable \cup ParsedInvalid
              /\ \A q \in RowSet(RawCustomers) :
                   Surrogate(q.customer_id) = Surrogate(r.customer_id)
                     => r.index <= q.index)

\* What standardize_phone has written to the log.
PhoneLog == SelectSeq(trace, LAMBDA e : e.by = "standardize_phone")

\* Every call on an unparsable or invalid cell has returned (the cleaner has
\* its table) and the cell is absent in the cleaned table.
BadPhonesAbsent ==
  /\ ~customers_clean.is_none
  /\ ErrorsOf("clean_customers") = {}
  /\ \A c \in customers_clean.rows :
       RawCustomers[c.index + 1].phone \in Unparsable \cup ParsedInvalid
         => c.phone = NaN

LogsError(bys) ==
  \E i \in 1..Len(NewEvents) :
    /\ NewEvents[i].op = "log"
    /\ NewEvents[i].arg = "error"
    /\ NewEvents[i].by \in bys

\* The load call of this step logs an error before it hands control back to
\* main, by a return or by an exception.
LoadLogsErrorBeforeEnd(t) ==
  \E i, j \in 1..Len(NewEvents) :
    /\ i < j
    /\ NewEvents[i] = Log("error", t)
    /\ NewEvents[j].by = t
    /\ NewEvents[j].op \in {"return", "raise"}

\* This step is main's call at position p, which leaves main at position q.
Step(p, q) == pc = p /\ pc' = q

\* C22: every failure leaves a log entry.  A table load that ends without
\* committing (skipped for an empty input, no connection, schema, cursor,
\* DELETE, INSERT or commit failing) has written an error entry before
\* control is back in main, and so has every call of a cleaner or of a split
\* that fails, which in the model is a call on a table without its columns.
C22_FailuresLogged ==
  [][/\ \A t \in Tables :
          Loads(t) /\ outcome'[t] # "committed" => LoadLogsErrorBeforeEnd(t)
     /\ Step(PcCleanCustomers, PcCleanProducts) /\ ~customers.columns
          => LogsError({"clean_customers"})
     /\ Step(PcCleanProducts, PcCleanSales) /\ ~products.columns
          => LogsError({"clean_products"})
     /\ Step(PcCleanSales, PcSplitOrders) /\ ~sales.columns
          => LogsError({"clean_sales"})
     /\ Step(PcSplitOrders, PcSplitItems) /\ ~sales.columns
          => LogsError({"split_sales_to_orders"})
     /\ Step(PcSplitItems, 1) /\ ~sales.columns
          => LogsError({"split_sales_to_order_items"})]_vars

\* A run in which the sales file could not be read, so that clean_sales and
\* both splits failed, the customers load found no connection and the
\* products load failed at a statement.
C22_Witness ==
  /\ pc = PcDone
  /\ ~files.sales.columns
  /\ ErrorsOf("clean_sales") # {}
  /\ ErrorsOf("split_sales_to_orders") # {}
  /\ ErrorsOf("split_sales_to_order_items") # {}
  /\ outcome["customers"] = "no_conn"
  /\ outcome["products"] = "failed"
  /\ outcome["orders"] = "skipped"

\* ---------------------------------------------------- claims, catalogue
\* The number a caller can read off the value update_review returned.
CountOf(v) == IF v.kind = "int" THEN v.value ELSE v.first

\* C23: update_review returns 1 if the review was appended to the product
\* with the given product_id and 0 otherwise (product not found or store
\* error), so that a caller testing the result for truth sees success
\* exactly when a document was modified.
C23_TruthIffModified ==
  [][Step(PcMongo, PcMongo) /\ trace' # trace =>
       /\ CountOf(updated_reviews') =
            (IF collection' # collection THEN 1 ELSE 0)
       /\ truth(updated_reviews') <=> (collection' # collection)]_vars

\* C24: the tables the quality report is made from at the end of a run are
\* the raw tables exactly as extracted (the three cleaners leave their raw
\* input tables unchanged), so that the reported row, duplicate and null
\* counts are those of the raw sources.
C24_ReportReadsRawAsExtracted ==
  Reported =>
    /\ customers = files.customers
    /\ products = files.products
    /\ sales = files.sales
    /\ report =
         <<generate_quality_report(files.customers, "customers_raw.csv"),
           generate_quality_report(files.products, "products_raw.csv"),
           generate_quality_report(files.sales, "sales_raw.csv")>>

\* -------------------------------------------------- claims, store contents
\* C25: once the customers load of a run has committed, the orders table is
\* empty and stays empty until the orders load of that run commits, and the
\* order_items table until the order_items load of that run commits; a run
\* whose customers load commits and whose orders or order_items load is
\* skipped or fails ends with that table empty, not with the rows it held
\* before the run.
C25_ChildTablesEmptyUntilReloaded ==
  outcome["customers"] = "committed" =>
    /\ outcome["orders"] # "committed" => store.orders = {}
    /\ outcome["order_items"] # "committed" => store.order_items = {}

\* A run on a store that held orders and order items: the customers load
\* committed, the orders and order_items loads failed, both tables are empty
\* at the end.
C25_Witness ==
  /\ pc = PcDone
  /\ first.store = SeededStore
  /\ outcome["customers"] = "committed"
  /\ outcome["orders"] = "failed"
  /\ outcome["order_items"] = "failed"
  /\ store.orders = {}
  /\ store.order_items = {}

====
